---------------------------- MODULE Spec2Model ----------------------------
(***************************************************************************)
(* Retrieval core of Quiz_Generation (src/rag_system.py): the sentence     *)
(* chunker (TextChunker), the TF-IDF index (SimpleVectorStore) and the     *)
(* retrieval service (RAGSystem).                                          *)
(*                                                                         *)
(* Texts are strings; a character is a string of length 1.  A float is     *)
(* modelled exactly where the code only divides small integers (tf is the  *)
(* rational count/total) and in fixed point where it takes a logarithm     *)
(* (idf is ln(n/df) in millionths, from a table of ln).                    *)
(***************************************************************************)
EXTENDS Integers, Sequences, FiniteSets, TLC

VARIABLES
    chunk_size,        \* TextChunker.chunk_size
    chunk_overlap,     \* TextChunker.chunk_overlap
    documents,         \* SimpleVectorStore.documents
    doc_freqs,         \* SimpleVectorStore.doc_freqs (a Counter: term -> count)
    total_docs,        \* SimpleVectorStore.total_docs
    document_hashes,   \* RAGSystem.document_hashes
    handlers,          \* the request handlers of the application: where each is in its call
    seen_texts,        \* history: the texts passed to add_document since the last clear
    last               \* history: the last completed call, its arguments and what it returned

vars == <<chunk_size, chunk_overlap, documents, doc_freqs, total_docs,
          document_hashes, handlers, seen_texts, last>>

index == <<documents, doc_freqs, total_docs, document_hashes>>

(***************************************************************************)
(* Bounds of the model.                                                    *)
(***************************************************************************)
\* add_document is not called once the index holds this many chunks
MaxChunks == 2

(***************************************************************************)
(* Characters and strings.                                                 *)
(***************************************************************************)
Char(s, i) == SubSeq(s, i, i)

Whitespace == {" ", "\n", "\t"}

Terminals == {".", "!", "?"}

UpperCase == "ABCDEFGHIJKLMNOPQRSTUVWXYZ"

LowerCase == "abcdefghijklmnopqrstuvwxyz"

Digits == "0123456789"

\* the characters the digest below gives a code to
Alphabet == " \n\t.!?,-" \o LowerCase \o UpperCase \o Digits

CharsOf(s) == {Char(s, i) : i \in 1..Len(s)}

\* upper-case letter -> lower-case letter
LowerMap ==
    [c \in CharsOf(UpperCase) |->
        Char(LowerCase, CHOOSE i \in 1..Len(UpperCase) : Char(UpperCase, i) = c)]

\* str.lower() on one character
Lower(c) == IF c \in DOMAIN LowerMap THEN LowerMap[c] ELSE c

RECURSIVE LStripFrom(_, _)
LStripFrom(s, i) ==
    IF i > Len(s) THEN ""
    ELSE IF Char(s, i) \in Whitespace THEN LStripFrom(s, i + 1)
    ELSE SubSeq(s, i, Len(s))

RECURSIVE RStripTo(_, _)
RStripTo(s, j) ==
    IF j < 1 THEN ""
    ELSE IF Char(s, j) \in Whitespace THEN RStripTo(s, j - 1)
    ELSE SubSeq(s, 1, j)

\* str.strip()
Strip(s) == RStripTo(LStripFrom(s, 1), Len(LStripFrom(s, 1)))

RECURSIVE Join(_, _)
\* sep.join(parts)
Join(sep, parts) ==
    IF Len(parts) = 0 THEN ""
    ELSE IF Len(parts) = 1 THEN parts[1]
    ELSE parts[1] \o sep \o Join(sep, Tail(parts))

RECURSIVE SumLen(_)
\* sum(len(s) for s in parts)
SumLen(parts) ==
    IF Len(parts) = 0 THEN 0 ELSE Len(parts[1]) + SumLen(Tail(parts))

\* list[:k] of Python, also for k past the end and for negative k
Slice(seq, k) ==
    IF k >= 0
    THEN SubSeq(seq, 1, IF k < Len(seq) THEN k ELSE Len(seq))
    ELSE SubSeq(seq, 1, IF Len(seq) + k > 0 THEN Len(seq) + k ELSE 0)

SelectSeqNonEmpty(parts) == SelectSeq(parts, LAMBDA p : p # "")


(***************************************************************************)
(* TextChunker.                                                            *)
(***************************************************************************)
RECURSIVE SpaceRunEnd(_, _)
\* the last index of the whitespace run that starts at i
SpaceRunEnd(s, i) ==
    IF i < Len(s) /\ Char(s, i + 1) \in Whitespace THEN SpaceRunEnd(s, i + 1) ELSE i

\* the positions from i on where the pattern (?<=[.!?])\s+ matches: a
\* whitespace character that follows a sentence terminal
CutsFrom(s, i) ==
    {j \in i..Len(s) : j > 1 /\ Char(s, j) \in Whitespace /\ Char(s, j - 1) \in Terminals}

\* the first match from i on, Len(s) + 1 when there is none
NextCut(s, i) ==
    IF CutsFrom(s, i) = {} THEN Len(s) + 1
    ELSE CHOOSE j \in CutsFrom(s, i) : \A k \in CutsFrom(s, i) : j <= k

RECURSIVE ReSplit(_, _, _)
\* re.split(r'(?<=[.!?])\s+', s): cut at every whitespace run that follows
\* a sentence terminal; start is where the current piece began, cut the
\* next match
ReSplit(s, start, cut) ==
    IF cut > Len(s) THEN <<SubSeq(s, start, Len(s))>>
    ELSE <<SubSeq(s, start, cut - 1)>>
         \o ReSplit(s, SpaceRunEnd(s, cut) + 1, NextCut(s, SpaceRunEnd(s, cut) + 1))

\* [s.strip() for s in sentences if s.strip()]
split_into_sentences(text) ==
    LET pieces == ReSplit(text, 1, NextCut(text, 1))
        stripped == [k \in 1..Len(pieces) |-> Strip(pieces[k])]
    IN  SelectSeqNonEmpty(stripped)

RECURSIVE OverlapWalk(_, _, _, _, _)
\* the loop over reversed(sentences): j walks down, acc is overlap_sentences
OverlapWalk(sentences, j, overlap_chars, acc, overlap) ==
    IF j < 1 THEN acc
    ELSE IF overlap_chars + Len(sentences[j]) <= overlap
    THEN OverlapWalk(sentences, j - 1, overlap_chars + Len(sentences[j]),
                     <<sentences[j]>> \o acc, overlap)
    ELSE acc

get_overlap_sentences(sentences, overlap) ==
    IF Len(sentences) = 0 THEN <<>>
    ELSE OverlapWalk(sentences, Len(sentences), 0, <<>>, overlap)

\* the chunk dictionary built from current_chunk when it is closed
NewChunk(current_chunk, chunks) ==
    [text |-> Join(" ", current_chunk),
     char_count |-> Len(Join(" ", current_chunk)),
     chunk_id |-> Len(chunks)]

RECURSIVE ChunkLoopForgettingSentence(_, _, _, _, _, _, _)
\* a variant of ChunkLoop: the chunk opened when one is closed holds the
\* overlap sentences only, the sentence that did not fit is forgotten
ChunkLoopForgettingSentence(sentences, i, chunks, current_chunk, current_length, size, overlap) ==
    IF i > Len(sentences)
    THEN IF Len(current_chunk) > 0
         THEN Append(chunks, NewChunk(current_chunk, chunks))
         ELSE chunks
    ELSE IF current_length + Len(sentences[i]) <= size
    THEN ChunkLoopForgettingSentence(sentences, i + 1, chunks,
                   Append(current_chunk, sentences[i]),
                   current_length + Len(sentences[i]) + 1, size, overlap)
    ELSE LET closed == IF Len(current_chunk) > 0
                       THEN Append(chunks, NewChunk(current_chunk, chunks))
                       ELSE chunks
             next_chunk == get_overlap_sentences(current_chunk, overlap)
         IN  ChunkLoopForgettingSentence(sentences, i + 1, closed, next_chunk,
                       SumLen(next_chunk) + Len(next_chunk), size, overlap)

RECURSIVE ChunkLoop(_, _, _, _, _, _, _)
\* the loop over sentences and the flush of the last chunk
ChunkLoop(sentences, i, chunks, current_chunk, current_length, size, overlap) ==
    IF i > Len(sentences)
    THEN IF Len(current_chunk) > 0
         THEN Append(chunks, NewChunk(current_chunk, chunks))
         ELSE chunks
    ELSE IF current_length + Len(sentences[i]) <= size
    THEN ChunkLoop(sentences, i + 1, chunks, Append(current_chunk, sentences[i]),
                   current_length + Len(sentences[i]) + 1, size, overlap)
    ELSE LET closed == IF Len(current_chunk) > 0
                       THEN Append(chunks, NewChunk(current_chunk, chunks))
                       ELSE chunks
             next_chunk == get_overlap_sentences(current_chunk, overlap)
                           \o <<sentences[i]>>
         IN  ChunkLoop(sentences, i + 1, closed, next_chunk,
                       SumLen(next_chunk) + Len(next_chunk), size, overlap)

chunk_text(text, size, overlap) ==
    IF text = "" \/ Strip(text) = "" THEN <<>>
    ELSE ChunkLoop(split_into_sentences(Strip(text)), 1, <<>>, <<>>, 0, size, overlap)

(***************************************************************************)
(* SimpleVectorStore.                                                      *)
(***************************************************************************)
\* the class [a-zA-Z0-9] of the tokenizer's pattern (its accented letters
\* are outside Alphabet)
WordChars == CharsOf(LowerCase) \cup CharsOf(UpperCase) \cup CharsOf(Digits)

RECURSIVE LowerFrom(_, _, _)
\* str.lower() on the characters lo..hi of s, half by half
LowerFrom(s, lo, hi) ==
    IF lo > hi THEN ""
    ELSE IF lo = hi THEN Lower(Char(s, lo))
    ELSE LowerFrom(s, lo, (lo + hi) \div 2) \o LowerFrom(s, (lo + hi) \div 2 + 1, hi)

\* str.lower()
LowerStr(s) == LowerFrom(s, 1, Len(s))

\* the positions of s where a maximal run of word characters starts
WordStarts(s) ==
    {i \in 1..Len(s) : /\ Char(s, i) \in WordChars
                       /\ (i = 1 \/ Char(s, i - 1) \notin WordChars)}

\* the position where the run of word characters that starts at i ends
WordEnd(s, i) ==
    CHOOSE j \in i..Len(s) :
        /\ \A k \in i..j : Char(s, k) \in WordChars
        /\ (j = Len(s) \/ Char(s, j + 1) \notin WordChars)

\* the k-th smallest element of a set of numbers
Nth(S, k) == CHOOSE i \in S : Cardinality({j \in S : j < i}) = k - 1

\* the run of word characters of s that starts at i
WordAt(s, i) == SubSeq(s, i, WordEnd(s, i))

\* re.findall(r'\b[a-zA-Z0-9]+\b', s): the maximal runs of word characters,
\* from left to right
FindWords(s, starts) ==
    [k \in 1..Cardinality(starts) |-> WordAt(s, Nth(starts, k))]

\* re.findall(r'\b[a-zA-Z0-9]+\b', s)
Words(s) == FindWords(s, WordStarts(s))

tokenize(text) ==
    SelectSeq(Words(LowerStr(text)), LAMBDA w : Len(w) > 2)

Range(seq) == {seq[i] : i \in 1..Len(seq)}

Count(term, tokens) == Cardinality({i \in 1..Len(tokens) : tokens[i] = term})

\* term -> count / total, the quotient kept as the pair (num, den)
compute_tf(tokens) ==
    [term \in Range(tokens) |-> [num |-> Count(term, tokens), den |-> Len(tokens)]]

\* doc_freqs.get(term, 0)
DfGet(dfs, term) == IF term \in DOMAIN dfs THEN dfs[term] ELSE 0

\* ln(n) in millionths, n = 1..16
LnMicro ==
    <<0, 693147, 1098612, 1386294, 1609438, 1791759, 1945910, 2079442,
      2197225, 2302585, 2397895, 2484907, 2564949, 2639057, 2708050, 2772589>>

\* a variant of compute_idf: the smoothed ratio, log((total + 1) / (df + 1))
compute_idfSmoothed(term, dfs, total) ==
    IF total = 0 THEN 0
    ELSE IF DfGet(dfs, term) = 0 THEN 0
    ELSE LnMicro[total + 1] - LnMicro[DfGet(dfs, term) + 1]

\* math.log(total / df) in millionths
compute_idf(term, dfs, total) ==
    IF total = 0 THEN 0
    ELSE IF DfGet(dfs, term) = 0 THEN 0
    ELSE LnMicro[total] - LnMicro[DfGet(dfs, term)]

\* a variant of UpdateDocFreqs: for term in tokens (every occurrence counts)
UpdateDocFreqsPerOccurrence(dfs, tokens) ==
    [term \in DOMAIN dfs \cup Range(tokens) |-> DfGet(dfs, term) + Count(term, tokens)]

\* for term in set(tokens): doc_freqs[term] += 1
UpdateDocFreqs(dfs, tokens) ==
    [term \in DOMAIN dfs \cup Range(tokens) |->
        DfGet(dfs, term) + (IF term \in Range(tokens) THEN 1 ELSE 0)]

\* the chunk as add_documents stores it, tokens being _tokenize(chunk['text'])
IndexedChunk(chunk, document_id, tokens) ==
    [text |-> chunk.text, char_count |-> chunk.char_count, chunk_id |-> chunk.chunk_id,
     document_id |-> document_id,
     tokens |-> tokens,
     tf |-> compute_tf(tokens)]

\* a variant of AddChunk: self.documents.insert(0, chunk)
AddChunkInFront(store, chunk, document_id, tokens) ==
    [documents |-> <<IndexedChunk(chunk, document_id, tokens)>> \o store.documents,
     doc_freqs |-> UpdateDocFreqs(store.doc_freqs, tokens),
     total_docs |-> store.total_docs + 1]

\* one pass of the loop of add_documents over a chunk, tokens being
\* _tokenize(chunk['text']); store is [documents, doc_freqs, total_docs]
AddChunk(store, chunk, document_id, tokens) ==
    [documents |-> Append(store.documents, IndexedChunk(chunk, document_id, tokens)),
     doc_freqs |-> UpdateDocFreqs(store.doc_freqs, tokens),
     total_docs |-> store.total_docs + 1]

RECURSIVE add_documents(_, _, _, _)
\* i is the loop's position in chunks
add_documents(store, chunks, i, document_id) ==
    IF i > Len(chunks) THEN store
    ELSE add_documents(AddChunk(store, chunks[i], document_id, tokenize(chunks[i].text)),
                        chunks, i + 1, document_id)

\* a float score as the pair (num, den): num in millionths
Zero == [num |-> 0, den |-> 1]

RatAdd(a, b) ==
    IF a.den = b.den THEN [num |-> a.num + b.num, den |-> a.den]
    ELSE [num |-> a.num * b.den + b.num * a.den, den |-> a.den * b.den]

RatLess(a, b) == a.num * b.den < b.num * a.den

RatEq(a, b) == a.num * b.den = b.num * a.den

RECURSIVE ScoreLoop(_, _, _, _, _)
\* for term in query_tokens: if term in doc['tf']: score += tf * idf
ScoreLoop(doc, query_tokens, k, dfs, total) ==
    IF k > Len(query_tokens) THEN Zero
    ELSE LET term == query_tokens[k]
             rest == ScoreLoop(doc, query_tokens, k + 1, dfs, total)
         IN  IF term \in DOMAIN doc.tf
             THEN RatAdd([num |-> doc.tf[term].num * compute_idf(term, dfs, total),
                          den |-> doc.tf[term].den], rest)
             ELSE rest

\* scores: the list of (score, i) in the order of documents
Scores(store, query_tokens) ==
    [i \in 1..Len(store.documents) |->
        [score |-> ScoreLoop(store.documents[i], query_tokens, 1,
                             store.doc_freqs, store.total_docs),
         idx |-> i]]

\* a variant of InsertDesc: an ascending sort read backwards, which turns
\* the order of equal scores around
InsertDescTiesReversed(sorted, item) ==
    LET notGreater == {j \in 1..Len(sorted) : ~RatLess(item.score, sorted[j].score)}
        at == IF notGreater = {} THEN Len(sorted) + 1
              ELSE CHOOSE j \in notGreater : \A m \in notGreater : j <= m
    IN  SubSeq(sorted, 1, at - 1) \o <<item>> \o SubSeq(sorted, at, Len(sorted))

\* where a stable descending sort puts item among the already sorted ones:
\* before the first element of strictly smaller score
InsertDesc(sorted, item) ==
    LET smaller == {j \in 1..Len(sorted) : RatLess(sorted[j].score, item.score)}
        at == IF smaller = {} THEN Len(sorted) + 1
              ELSE CHOOSE j \in smaller : \A m \in smaller : j <= m
    IN  SubSeq(sorted, 1, at - 1) \o <<item>> \o SubSeq(sorted, at, Len(sorted))

RECURSIVE SortFrom(_, _, _)
SortFrom(scores, k, sorted) ==
    IF k > Len(scores) THEN sorted
    ELSE SortFrom(scores, k + 1, InsertDesc(sorted, scores[k]))

\* a variant of SortDescending: scores.sort(key=lambda x: x[0]), the lowest
\* score first
SortAscending(scores) ==
    [k \in 1..Len(scores) |->
        SortFrom(scores, 1, <<>>)[Len(scores) + 1 - k]]

\* scores.sort(reverse=True, key=lambda x: x[0]): stable, equal scores keep
\* their order
SortDescending(scores) == SortFrom(scores, 1, <<>>)

\* a record handed to the caller: from says which stored chunk it was made
\* from, alias whether it is that very object (no copy was taken)
\* the copy of a hit, with its score and without the internal fields
ResultCopy(doc, hit) ==
    [from |-> hit.idx, alias |-> FALSE,
     fields |-> [text |-> doc.text, char_count |-> doc.char_count,
                 chunk_id |-> doc.chunk_id, document_id |-> doc.document_id,
                 score |-> hit.score]]

\* a variant of StoredAfterHit: doc = self.documents[idx], no copy taken
StoredAfterHitNoCopy(doc, hit) ==
    [text |-> doc.text, char_count |-> doc.char_count, chunk_id |-> doc.chunk_id,
     document_id |-> doc.document_id, score |-> hit.score]

\* the stored chunk after a hit was reported from it: score and both pops
\* act on the copy, so the chunk is as it was
StoredAfterHit(doc, hit) == doc

\* self.documents[:top_k]: the stored chunks themselves
FallbackResults(docs, top_k) ==
    [i \in 1..Len(Slice(docs, top_k)) |-> [from |-> i, alias |-> TRUE, fields |-> docs[i]]]

\* the return of search for the hits scores[:top_k]: results are the
\* records returned, documents the stored list when the call is over
Ranked(store, hits) ==
    [outcome |-> "returned",
     results |-> [k \in 1..Len(hits) |->
                     ResultCopy(store.documents[hits[k].idx], hits[k])],
     documents |-> [i \in 1..Len(store.documents) |->
                     IF \E k \in 1..Len(hits) : hits[k].idx = i
                     THEN StoredAfterHit(store.documents[i],
                                         hits[CHOOSE k \in 1..Len(hits) : hits[k].idx = i])
                     ELSE store.documents[i]]]

\* search once the index is known not to be empty, query_tokens being
\* _tokenize(query)
SearchTokens(store, query_tokens, top_k) ==
    IF Len(query_tokens) = 0
    THEN [outcome |-> "returned",
          results |-> FallbackResults(store.documents, top_k),
          documents |-> store.documents]
    ELSE Ranked(store, Slice(SortDescending(Scores(store, query_tokens)), top_k))

\* a variant of search: an empty index is an error
searchRaisingOnEmpty(store, query, top_k) ==
    IF Len(store.documents) = 0
    THEN [outcome |-> "raised", results |-> <<>>, documents |-> store.documents]
    ELSE SearchTokens(store, tokenize(query), top_k)

\* search returns [outcome, results, documents]
search(store, query, top_k) ==
    IF Len(store.documents) = 0
    THEN [outcome |-> "returned", results |-> <<>>, documents |-> store.documents]
    ELSE SearchTokens(store, tokenize(query), top_k)

\* '\n\n'.join([doc['text'] for doc in self.documents])
get_all_text(docs) == Join("\n\n", [i \in 1..Len(docs) |-> docs[i].text])

(***************************************************************************)
(* RAGSystem.                                                              *)
(***************************************************************************)
\* the length of the fallback context of get_relevant_context
FallbackChars == 3000

\* character -> its code
CharCode ==
    [c \in CharsOf(Alphabet) |-> CHOOSE i \in 1..Len(Alphabet) : Char(Alphabet, i) = c]

\* the modulus and the multiplier of the digest
DigestModulus == 46337

DigestBase == 131

RECURSIVE DigestPower(_)
\* DigestBase^k % DigestModulus
DigestPower(k) ==
    IF k = 0 THEN 1
    ELSE IF k % 2 = 1 THEN (DigestBase * DigestPower(k - 1)) % DigestModulus
    ELSE (DigestPower(k \div 2) * DigestPower(k \div 2)) % DigestModulus

RECURSIVE Digest(_, _, _)
\* the digest of the characters lo..hi of text: the value that taking h to
\* (h * DigestBase + code) % DigestModulus at each character gives from 0,
\* computed half by half
Digest(text, lo, hi) ==
    IF lo > hi THEN 0
    ELSE IF lo = hi THEN CharCode[Char(text, lo)]
    ELSE (Digest(text, lo, (lo + hi) \div 2) * DigestPower(hi - (lo + hi) \div 2)
          + Digest(text, (lo + hi) \div 2 + 1, hi)) % DigestModulus

\* hashlib.md5(text.encode()).hexdigest(): a function of the text alone,
\* with no collision among the texts of the model
md5(text) == (7 * DigestPower(Len(text)) + Digest(text, 1, Len(text))) % DigestModulus

\* a variant of Ingested: the hash is recorded only when chunks were made
IngestedHashIfChunks(svc, text, chunks, store) ==
    [ret |-> Len(chunks), documents |-> store.documents,
     doc_freqs |-> store.doc_freqs, total_docs |-> store.total_docs,
     document_hashes |-> svc.document_hashes
                         \cup (IF Len(chunks) > 0 THEN {md5(text)} ELSE {})]

\* what add_document returns and leaves behind once chunks went into store
Ingested(svc, text, chunks, store) ==
    [ret |-> Len(chunks), documents |-> store.documents,
     doc_freqs |-> store.doc_freqs, total_docs |-> store.total_docs,
     document_hashes |-> svc.document_hashes \cup {md5(text)}]

\* add_document past the duplicate check, chunks being chunk_text(text)
AddChunks(svc, text, document_id, chunks) ==
    Ingested(svc, text, chunks,
             add_documents([documents |-> svc.documents, doc_freqs |-> svc.doc_freqs,
                            total_docs |-> svc.total_docs],
                           chunks, 1, document_id))

\* a variant of add_document: the duplicate check is missing
add_documentNoCheck(svc, text, document_id) ==
    AddChunks(svc, text, document_id,
              chunk_text(text, svc.chunk_size, svc.chunk_overlap))

\* svc is [chunk_size, chunk_overlap, documents, doc_freqs, total_docs,
\* document_hashes]; the result is the return value and the state after
add_document(svc, text, document_id) ==
    IF md5(text) \in svc.document_hashes
    THEN [ret |-> 0, documents |-> svc.documents, doc_freqs |-> svc.doc_freqs,
          total_docs |-> svc.total_docs, document_hashes |-> svc.document_hashes]
    ELSE AddChunks(svc, text, document_id,
                   chunk_text(text, svc.chunk_size, svc.chunk_overlap))

\* the first FallbackChars characters of text
Truncated(text) ==
    SubSeq(text, 1, IF Len(text) < FallbackChars THEN Len(text) ELSE FallbackChars)

\* get_relevant_context once search returned found
ContextOf(found) ==
    IF found.outcome # "returned"
    THEN [outcome |-> found.outcome, ret |-> "", documents |-> found.documents]
    ELSE IF Len(found.results) = 0
    THEN [outcome |-> "returned", ret |-> Truncated(get_all_text(found.documents)),
          documents |-> found.documents]
    ELSE [outcome |-> "returned",
          ret |-> Join("\n\n---\n\n",
                       [k \in 1..Len(found.results) |-> found.results[k].fields.text]),
          documents |-> found.documents]

\* get_relevant_context returns [outcome, ret, documents]
get_relevant_context(store, query, top_k) == ContextOf(search(store, query, top_k))

get_full_context(store) == get_all_text(store.documents)

get_stats(svc) ==
    [total_chunks |-> Len(svc.documents),
     unique_documents |-> Cardinality(svc.document_hashes)]

\* a variant of clear: the hash set is emptied, the vector store is kept
clearHashesOnly(svc) ==
    [documents |-> svc.documents, doc_freqs |-> svc.doc_freqs,
     total_docs |-> svc.total_docs, document_hashes |-> {}]

\* a variant of clear: the vector store is emptied, the hash set is kept
clearKeepingHashes(svc) ==
    [documents |-> <<>>, doc_freqs |-> <<>>, total_docs |-> 0,
     document_hashes |-> svc.document_hashes]

\* SimpleVectorStore.clear, then document_hashes.clear()
clear(svc) ==
    [documents |-> <<>>, doc_freqs |-> <<>>, total_docs |-> 0, document_hashes |-> {}]

(***************************************************************************)
(* The calls the model makes.                                              *)
(***************************************************************************)
\* RAGSystem(chunk_size, chunk_overlap) takes any two integers: a valid
\* pair, and two pairs the constructor accepts although chunk_size <= 0 or
\* chunk_overlap >= chunk_size
Configs ==
    {[chunk_size |-> 20, chunk_overlap |-> 8],
     [chunk_size |-> 12, chunk_overlap |-> 12],
     [chunk_size |-> 0, chunk_overlap |-> -1]}

Texts ==
    {"The cat sat. The dog ran.",
     "A cat! A cat naps.",
     "Dog ran. Cat sat. Dog sat.",
     "Go up. It is.",
     " \n",
     ""}

DocIds == {"a.txt", "b.txt"}

Queries == {"Is it?", "A CAT, the cat!"}

TopKs == {-1, 0, 1, 2}

Store == [documents |-> documents, doc_freqs |-> doc_freqs, total_docs |-> total_docs]

Svc ==
    [chunk_size |-> chunk_size, chunk_overlap |-> chunk_overlap,
     documents |-> documents, doc_freqs |-> doc_freqs, total_docs |-> total_docs,
     document_hashes |-> document_hashes]

\* the request handlers that run on the one rag_system of the application
Handlers == {1, 2}

\* a handler that has not been given a request yet
NoCall ==
    [pc |-> "idle", op |-> "none", text |-> "", document_id |-> "",
     chunks |-> <<>>, i |-> 0, ret |-> 0, calls |-> 0, before |-> <<>>]

Idle == [h \in Handlers |-> NoCall]

\* RAGSystem.__init__: nothing is checked, every pair is stored
Init ==
    /\ \E c \in Configs :
          /\ chunk_size = c.chunk_size
          /\ chunk_overlap = c.chunk_overlap
    /\ documents = <<>>
    /\ doc_freqs = <<>>
    /\ total_docs = 0
    /\ document_hashes = {}
    /\ handlers = Idle
    /\ seen_texts = {}
    /\ last = [op |-> "__init__", outcome |-> "returned"]

\* the state after add_document returned r
AddDocumentDone(text, document_id, r) ==
    /\ documents' = r.documents
    /\ doc_freqs' = r.doc_freqs
    /\ total_docs' = r.total_docs
    /\ document_hashes' = r.document_hashes
    /\ last' = [op |-> "add_document", outcome |-> "returned",
                text |-> text, document_id |-> document_id, ret |-> r.ret,
                repeated |-> text \in seen_texts,
                reingested |-> last.op = "clear" /\ text \in last.had]
    /\ seen_texts' = seen_texts \cup {text}
    /\ UNCHANGED <<chunk_size, chunk_overlap, handlers>>

AddDocument(text, document_id) ==
    /\ total_docs < MaxChunks
    /\ AddDocumentDone(text, document_id, add_document(Svc, text, document_id))

\* the state after clear left r
ClearDone(r) ==
    /\ documents' = r.documents
    /\ doc_freqs' = r.doc_freqs
    /\ total_docs' = r.total_docs
    /\ document_hashes' = r.document_hashes
    /\ seen_texts' = {}
    /\ last' = [op |-> "clear", outcome |-> "returned", had |-> seen_texts]
    /\ UNCHANGED <<chunk_size, chunk_overlap, handlers>>

Clear == ClearDone(clear(Svc))

\* the state after search returned r
SearchDone(query, top_k, r) ==
    /\ documents' = r.documents
    /\ last' = [op |-> "search", outcome |-> r.outcome,
                query |-> query, top_k |-> top_k, ret |-> r.results]
    /\ UNCHANGED <<chunk_size, chunk_overlap, doc_freqs, total_docs,
                   document_hashes, handlers, seen_texts>>

Search(query, top_k) == SearchDone(query, top_k, search(Store, query, top_k))

\* the state after get_relevant_context returned r
GetRelevantContextDone(query, top_k, r) ==
    /\ documents' = r.documents
    /\ last' = [op |-> "get_relevant_context", outcome |-> r.outcome,
                query |-> query, top_k |-> top_k, ret |-> r.ret]
    /\ UNCHANGED <<chunk_size, chunk_overlap, doc_freqs, total_docs,
                   document_hashes, handlers, seen_texts>>

GetRelevantContext(query, top_k) ==
    GetRelevantContextDone(query, top_k, get_relevant_context(Store, query, top_k))

GetFullContext ==
    /\ last' = [op |-> "get_full_context", outcome |-> "returned",
                ret |-> get_full_context(Store)]
    /\ UNCHANGED <<chunk_size, chunk_overlap, documents, doc_freqs, total_docs,
                   document_hashes, handlers, seen_texts>>

GetStats ==
    /\ last' = [op |-> "get_stats", outcome |-> "returned", ret |-> get_stats(Svc)]
    /\ UNCHANGED <<chunk_size, chunk_overlap, documents, doc_freqs, total_docs,
                   document_hashes, handlers, seen_texts>>

Next ==
    \/ \E text \in Texts, document_id \in DocIds : AddDocument(text, document_id)
    \/ Clear
    \/ \E query \in Queries, top_k \in TopKs : Search(query, top_k)
    \/ \E query \in Queries, top_k \in TopKs : GetRelevantContext(query, top_k)
    \/ GetFullContext
    \/ GetStats

Spec == Init /\ [][Next]_vars

(***************************************************************************)
(* Properties.                                                             *)
(***************************************************************************)
ReadOps == {"search", "get_relevant_context", "get_full_context", "get_stats"}

QueryOps == {"search", "get_relevant_context"}

PublicFields == {"text", "char_count", "chunk_id", "document_id", "score"}

\* every term of the model's texts and queries
KnownTerms == UNION {Range(tokenize(t)) : t \in Texts \cup Queries}

\* the token set of every stored chunk, from its text
TokenSets == [i \in 1..Len(documents) |-> Range(tokenize(documents[i].text))]

Min(a, b) == IF a < b THEN a ELSE b

\* C1: an add_document whose text was already passed to add_document since
\* the last clear, under whatever document_id, returns 0 and leaves
\* documents, doc_freqs, total_docs and the hash set as they were
C1_RepeatedAddIsNoOp ==
    [][(last'.op = "add_document" /\ last'.repeated)
          => (last'.ret = 0 /\ UNCHANGED index)]_vars

\* C1 witness: a text was passed again, under a document_id that none of the
\* stored chunks carries, while the index holds chunks
C1_Witness ==
    /\ last.op = "add_document"
    /\ last.repeated
    /\ last.ret = 0
    /\ total_docs > 0
    /\ \A i \in 1..Len(documents) : documents[i].document_id # last.document_id

DfAgrees(toksets) ==
    \A term \in KnownTerms \cup DOMAIN doc_freqs :
        DfGet(doc_freqs, term)
            = Cardinality({i \in 1..Len(documents) : term \in toksets[i]})

\* C2: for every term, doc_freqs[term] is the number of stored chunks whose
\* token set contains the term, and 0 for a term of no chunk
C2_DocFreqsCountChunks == DfAgrees(TokenSets)

\* C2 witness: a chunk holds a term twice, and the term is in two chunks
C2_Witness ==
    \E i \in 1..Len(documents) : \E term \in DOMAIN doc_freqs :
        /\ Count(term, documents[i].tokens) >= 2
        /\ doc_freqs[term] = 2

\* C3: total_docs is the length of documents, and get_stats reports it as
\* total_chunks and the number of distinct texts passed to add_document
\* since the last clear as unique_documents
C3_StatsCountChunksAndTexts ==
    /\ total_docs = Len(documents)
    /\ last.op = "get_stats"
          => /\ last.ret.total_chunks = total_docs
             /\ last.ret.unique_documents = Cardinality(seen_texts)

\* C3 witness: get_stats after several texts, one of which gave no chunk
C3_Witness ==
    /\ last.op = "get_stats"
    /\ last.ret.unique_documents >= 3
    /\ last.ret.total_chunks >= 3
    /\ \E t \in seen_texts : Strip(t) = ""

\* the chunks of documents from position n + 1 on are chunks, tagged
NewChunksAre(docs, n, chunks, document_id) ==
    /\ Len(docs) = n + Len(chunks)
    /\ \A k \in 1..Len(chunks) :
          /\ docs[n + k].text = chunks[k].text
          /\ docs[n + k].char_count = chunks[k].char_count
          /\ docs[n + k].chunk_id = chunks[k].chunk_id
          /\ docs[n + k].document_id = document_id

\* C4: add_document of a text not passed since the last clear records its
\* hash, appends the chunker's chunks in order behind the stored ones, each
\* tagged with document_id, and returns the growth of total_docs; a text of
\* whitespace alone returns 0 and adds no chunk
C4_NewTextIsChunkedAndAppended ==
    [][(last'.op = "add_document" /\ ~last'.repeated)
          => /\ last'.outcome = "returned"
             /\ document_hashes' = document_hashes \cup {md5(last'.text)}
             /\ md5(last'.text) \notin document_hashes
             /\ SubSeq(documents', 1, Len(documents)) = documents
             /\ NewChunksAre(documents', Len(documents),
                             chunk_text(last'.text, chunk_size, chunk_overlap),
                             last'.document_id)
             /\ last'.ret = total_docs' - total_docs
             /\ Strip(last'.text) = "" => (last'.ret = 0 /\ documents' = documents)]_vars

\* C4 witness: a new text gave two or more chunks, behind chunks stored
\* before under another document_id
C4_Witness ==
    /\ last.op = "add_document"
    /\ ~last.repeated
    /\ last.ret >= 2
    /\ Len(documents) > last.ret
    /\ documents[1].document_id # last.document_id

\* C5: on a non-empty index, a query with a token and top_k >= 1 get
\* min(top_k, total_docs) results, scores never increasing, equal scores in
\* the order of insertion
C5_RankedByScoreThenInsertion ==
    (/\ last.op = "search"
     /\ Len(documents) > 0
     /\ last.top_k >= 1
     /\ Len(tokenize(last.query)) > 0)
        => /\ Len(last.ret) = Min(last.top_k, total_docs)
           /\ \A a, b \in 1..Len(last.ret) :
                 a < b =>
                    /\ ~RatLess(last.ret[a].fields.score, last.ret[b].fields.score)
                    /\ RatEq(last.ret[a].fields.score, last.ret[b].fields.score)
                          => last.ret[a].from < last.ret[b].from

\* C5 witness: a search returned fewer results than chunks stored, two of
\* them with the same score above 0
C5_Witness ==
    /\ last.op = "search"
    /\ last.top_k >= 1
    /\ Len(tokenize(last.query)) > 0
    /\ Len(last.ret) < total_docs
    /\ \E a, b \in 1..Len(last.ret) :
          /\ a < b
          /\ RatEq(last.ret[a].fields.score, last.ret[b].fields.score)
          /\ last.ret[a].fields.score.num > 0

\* C6: every record search returns from a non-empty index is a copy, not
\* the stored chunk, and has none of the fields tokens, tf
C6_ResultsAreStrippedCopies ==
    (last.op = "search" /\ Len(documents) > 0)
        => \A k \in 1..Len(last.ret) :
              /\ ~last.ret[k].alias
              /\ DOMAIN last.ret[k].fields \subseteq PublicFields

\* C7: search, get_relevant_context, get_full_context and get_stats leave
\* documents, doc_freqs, total_docs and the hash set as they were
C7_ReadsLeaveIndexUnchanged ==
    [][last'.op \in ReadOps => UNCHANGED index]_vars

\* C7 witness: get_relevant_context returned ranked passages of an index of
\* several chunks
C7_Witness ==
    /\ last.op = "get_relevant_context"
    /\ Len(documents) >= 2
    /\ Len(tokenize(last.query)) > 0
    /\ last.top_k >= 1
    /\ last.ret # ""

\* C8: search and get_relevant_context raise when top_k < 1
C8_TopKBelowOneRaises ==
    (last.op \in QueryOps /\ last.top_k < 1) => last.outcome = "raised"

InvalidConfig == chunk_size <= 0 \/ chunk_overlap >= chunk_size

\* C9: a configuration with chunk_size <= 0 or chunk_overlap >= chunk_size
\* is refused by the constructor, so no chunk is ever made under it
C9_NoChunkingUnderInvalidConfig ==
    InvalidConfig => ~(last.op = "add_document" /\ last.ret > 0)

\* C10: on an empty index, with top_k >= 1, search returns the empty
\* sequence and get_relevant_context the empty string, neither raising
C10_EmptyIndexFallback ==
    (last.op \in QueryOps /\ Len(documents) = 0 /\ last.top_k >= 1)
        => /\ last.outcome = "returned"
           /\ last.op = "search" => last.ret = <<>>
           /\ last.op = "get_relevant_context" => last.ret = ""

\* C10 witness: get_relevant_context on an index that holds no chunk,
\* although a text was ingested
C10_Witness ==
    /\ last.op = "get_relevant_context"
    /\ last.top_k >= 1
    /\ Len(documents) = 0
    /\ document_hashes # {}
    /\ last.ret = ""

\* C11: on an index of at least one chunk, whatever the query and the top_k,
\* a get_relevant_context that does not raise returns the texts of
\* search(query, top_k), in ranking order, joined by the separator: the
\* truncated corpus is returned on an empty index only
C11_FallbackOnlyOnEmptyIndex ==
    (/\ last.op = "get_relevant_context"
     /\ last.outcome = "returned"
     /\ Len(documents) > 0)
        => last.ret = Join("\n\n---\n\n",
                           [k \in 1..Len(search(Store, last.query, last.top_k).results)
                              |-> search(Store, last.query, last.top_k).results[k].fields.text])

\* the service as the constructor leaves it, under the configuration in use
FreshSvc ==
    [chunk_size |-> chunk_size, chunk_overlap |-> chunk_overlap,
     documents |-> <<>>, doc_freqs |-> <<>>, total_docs |-> 0,
     document_hashes |-> {}]

\* C12: clear leaves documents, doc_freqs and the hash set empty and
\* total_docs 0 whatever the state before; a clear right after a clear
\* changes nothing; and a text ingested before the clear is accepted again
\* after it, with the chunk count and the index a fresh instance would have
C12_ClearResetsToFresh ==
    [][/\ last'.op = "clear"
            => /\ documents' = <<>>
               /\ doc_freqs' = <<>>
               /\ total_docs' = 0
               /\ document_hashes' = {}
       /\ (last.op = "clear" /\ last'.op = "clear") => UNCHANGED index
       /\ (last'.op = "add_document" /\ last'.reingested)
            => /\ last'.ret
                     = add_document(FreshSvc, last'.text, last'.document_id).ret
               /\ documents'
                     = add_document(FreshSvc, last'.text, last'.document_id).documents
               /\ doc_freqs'
                     = add_document(FreshSvc, last'.text, last'.document_id).doc_freqs
               /\ total_docs'
                     = add_document(FreshSvc, last'.text, last'.document_id).total_docs
               /\ document_hashes'
                     = add_document(FreshSvc, last'.text, last'.document_id).document_hashes
      ]_vars

\* C12 witness: a text of two chunks, ingested before the clear, made two
\* chunks again right after it
C12_Witness ==
    /\ last.op = "add_document"
    /\ last.reingested
    /\ last.ret = 2
    /\ Len(documents) = 2

(***************************************************************************)
(* The chunker on one document: every text of up to MaxSentences sentences *)
(* of the pool, and the example of the documentation, under every pair of  *)
(* a chunk size and an overlap below.                                      *)
(***************************************************************************)
\* a text of ChunkerTexts has at most this many sentences
MaxSentences == 3

SentencePool == {"A b.", "Cat sat!", "The dog ran?"}

ExampleText == "A cat sat. A dog ran far away today. A bird flew high."

ChunkerTexts ==
    {Join(" ", sentences) :
        sentences \in UNION {[1..n -> SentencePool] : n \in 1..MaxSentences}}
    \cup {ExampleText}

ChunkerConfigs ==
    [chunk_size : {0, 10, 20, 50}, chunk_overlap : {-1, 0, 8, 10, 24}]

\* RAGSystem.__init__ under a configuration of ChunkerConfigs
InitChunker ==
    /\ \E c \in ChunkerConfigs :
          /\ chunk_size = c.chunk_size
          /\ chunk_overlap = c.chunk_overlap
    /\ documents = <<>>
    /\ doc_freqs = <<>>
    /\ total_docs = 0
    /\ document_hashes = {}
    /\ handlers = Idle
    /\ seen_texts = {}
    /\ last = [op |-> "__init__", outcome |-> "returned"]

\* add_document on the service as constructed
AddFirstDocument(text) ==
    /\ seen_texts = {}
    /\ AddDocumentDone(text, "a.txt", add_document(Svc, text, "a.txt"))

NextChunker ==
    \/ \E text \in ChunkerTexts : AddFirstDocument(text)
    \/ GetStats

SpecChunker == InitChunker /\ [][NextChunker]_vars

\* the text of the one document ingested so far
IngestedText == CHOOSE text \in seen_texts : TRUE

\* the sentences of stored chunk k
StoredSentences(k) == split_into_sentences(documents[k].text)

\* the sentences chunk k took over from chunk k - 1
CarriedInto(k) ==
    IF k = 1 THEN <<>>
    ELSE get_overlap_sentences(StoredSentences(k - 1), chunk_overlap)

\* the sentences of chunk k after those it took over
OwnSentences(k) ==
    SubSeq(StoredSentences(k), Len(CarriedInto(k)) + 1, Len(StoredSentences(k)))

RECURSIVE OwnSentencesUpTo(_)
OwnSentencesUpTo(k) ==
    IF k = 0 THEN <<>> ELSE OwnSentencesUpTo(k - 1) \o OwnSentences(k)

\* C14: whatever the sentences and the configuration, every chunk after the
\* first begins with the sentences carried over from its predecessor, and
\* the chunks' remaining sentences, concatenated in chunk order, are the
\* sentences of the text, each once and in the order of the text
C14_ChunksCoverSentences ==
    Cardinality(seen_texts) = 1
        => /\ \A k \in 1..Len(documents) :
                 SubSeq(StoredSentences(k), 1, Len(CarriedInto(k))) = CarriedInto(k)
           /\ OwnSentencesUpTo(Len(documents))
                 = split_into_sentences(Strip(IngestedText))

\* C14 witness: under a valid configuration a text of three sentences made
\* several chunks, one of which holds a sentence carried over and a sentence
\* of its own
C14_Witness ==
    /\ ~InvalidConfig
    /\ Cardinality(seen_texts) = 1
    /\ Len(split_into_sentences(Strip(IngestedText))) = 3
    /\ \E k \in 2..Len(documents) :
          /\ Len(CarriedInto(k)) >= 1
          /\ Len(OwnSentences(k)) >= 1

\* C15: the sentences a chunk took over from its predecessor, joined by
\* single spaces as in the chunk's text, are at most chunk_overlap
\* characters, provided no sentence of the text is longer than the bound
C15_OverlapPrefixWithinOverlap ==
    (/\ Cardinality(seen_texts) = 1
     /\ \A j \in 1..Len(split_into_sentences(Strip(IngestedText))) :
           /\ Len(split_into_sentences(Strip(IngestedText))[j]) <= chunk_overlap
           /\ Len(split_into_sentences(Strip(IngestedText))[j]) <= chunk_size)
        => \A k \in 2..Len(documents) :
              Len(Join(" ", CarriedInto(k))) <= chunk_overlap

\* C16: under chunk_size 50 and chunk_overlap 10 the example text makes two
\* chunks, the second beginning with the overlap sentence taken from the
\* first, and get_stats then reports total_chunks 2 and unique_documents 1
C16_ExampleOverlaps ==
    (/\ chunk_size = 50
     /\ chunk_overlap = 10
     /\ seen_texts = {ExampleText}
     /\ last.op = "get_stats")
        => /\ Len(documents) = 2
           /\ StoredSentences(2)[1]
                 = StoredSentences(1)[Len(StoredSentences(1))]
           /\ last.ret = [total_chunks |-> 2, unique_documents |-> 1]

(***************************************************************************)
(* Ranking by one term: documents of one or two chunks are added until the *)
(* index holds MaxRankChunks chunks or more, and searched for one word.    *)
(***************************************************************************)
\* add_document is not called once the index holds this many chunks
MaxRankChunks == 3

RankTexts ==
    {"The cat sat. The dog ran.", "A cat naps.", "Dog ran.", "The cat!"}

TermQueries == {"cat", "Dog!", "the"}

RankTopKs == {1, 2, 5}

AddRankDocument(text) ==
    /\ total_docs < MaxRankChunks
    /\ AddDocumentDone(text, "a.txt", add_document(Svc, text, "a.txt"))

NextRank ==
    \/ \E text \in RankTexts : AddRankDocument(text)
    \/ \E query \in TermQueries, top_k \in RankTopKs : Search(query, top_k)

SpecRank == Init /\ [][NextRank]_vars

\* the number of chunks of docs whose text has the token term
ChunksWith(term, docs) ==
    Cardinality({i \in 1..Len(docs) : term \in Range(tokenize(docs[i].text))})

\* C17: the idf of a term that k >= 1 of the n stored chunks contain is
\* ln(n/k); it is 0 exactly when k = n; and one more chunk that contains
\* the term never increases it
C17_IdfIsLogOfRatio ==
    [][\A term \in DOMAIN doc_freqs' :
          ChunksWith(term, documents') >= 1
            => /\ compute_idf(term, doc_freqs', total_docs')
                     = LnMicro[Len(documents')] - LnMicro[ChunksWith(term, documents')]
               /\ compute_idf(term, doc_freqs', total_docs') = 0
                     <=> ChunksWith(term, documents') = Len(documents')
               /\ (/\ Len(documents') = Len(documents) + 1
                   /\ ChunksWith(term, documents) >= 1
                   /\ ChunksWith(term, documents') = ChunksWith(term, documents) + 1)
                     => compute_idf(term, doc_freqs', total_docs')
                           <= compute_idf(term, doc_freqs, total_docs)
      ]_vars

\* C17 witness: a document of one chunk was added to two chunks or more, and
\* its chunk has a term that some but not all of the chunks before had, next
\* to a term that every chunk has
C17_Witness ==
    /\ last.op = "add_document"
    /\ last.ret = 1
    /\ Len(documents) >= 3
    /\ \E term \in Range(tokenize(documents[Len(documents)].text)) :
          /\ ChunksWith(term, documents) >= 2
          /\ ChunksWith(term, documents) < Len(documents)
          /\ compute_idf(term, doc_freqs, total_docs) > 0
    /\ \E term \in DOMAIN doc_freqs :
          /\ ChunksWith(term, documents) = Len(documents)
          /\ compute_idf(term, doc_freqs, total_docs) = 0

\* the one token of the query of the last search
QueryTerm == tokenize(last.query)[1]

\* the positions in the last result of the record made from stored chunk i
RanksOf(i) == {a \in 1..Len(last.ret) : last.ret[a].from = i}

\* C18: when the query is one term, every stored chunk that has the term
\* comes before every stored chunk that does not, the first with a score
\* above 0 and the second with the score 0
C18_TermChunksRankFirst ==
    (last.op = "search" /\ Len(tokenize(last.query)) = 1)
        => \A i, j \in 1..Len(documents) :
              (/\ QueryTerm \in Range(tokenize(documents[i].text))
               /\ QueryTerm \notin Range(tokenize(documents[j].text)))
                 => /\ \A a \in RanksOf(i) : RatLess(Zero, last.ret[a].fields.score)
                    /\ \A b \in RanksOf(j) :
                          /\ RatEq(Zero, last.ret[b].fields.score)
                          /\ \E a \in RanksOf(i) : a < b

\* C18 witness: the index holds "The cat sat." and "The dog ran." as its two
\* chunks, and the search for "cat" returned both, the first before the
\* second
C18_Witness ==
    /\ last.op = "search"
    /\ last.query = "cat"
    /\ Len(documents) = 2
    /\ documents[1].text = "The cat sat."
    /\ documents[2].text = "The dog ran."
    /\ Len(last.ret) = 2
    /\ last.ret[1].from = 1
    /\ last.ret[2].from = 2
    /\ RatLess(last.ret[2].fields.score, last.ret[1].fields.score)

(***************************************************************************)
(* The handlers of the application on the one rag_system (src/app.py): no  *)
(* lock is taken anywhere, so another handler can run between any two      *)
(* statements of a call.  A step is one statement that reads or writes the *)
(* shared index; get_stats and search are taken as one step each.          *)
(***************************************************************************)
\* the handlers make at most this many calls of add_document and clear
\* between them
MaxCalls == 2

ConcTexts == {"The cat sat. The dog ran.", "A cat naps."}

ConcQueries == {"cat"}

Free(h) == handlers[h].pc \in {"idle", "done"}

RECURSIVE CallsOf(_)
\* the calls of add_document and clear the handlers hs have made
CallsOf(hs) ==
    IF hs = {} THEN 0
    ELSE handlers[CHOOSE h \in hs : TRUE].calls
         + CallsOf(hs \ {CHOOSE h \in hs : TRUE})

\* handler h as it enters a call; before is the service as the call found it
Begin(h, op, text, document_id) ==
    [NoCall EXCEPT !.op = op, !.text = text, !.document_id = document_id,
                   !.calls = handlers[h].calls + 1, !.before = Svc]

\* handler h as its call returns ret
Returned(h, ret) ==
    [handlers[h] EXCEPT !.pc = "done", !.ret = ret, !.chunks = <<>>, !.i = 0,
                        !.before = <<>>]

\* the application under the configuration of the small texts of the model
InitConc ==
    /\ chunk_size = 20
    /\ chunk_overlap = 8
    /\ documents = <<>>
    /\ doc_freqs = <<>>
    /\ total_docs = 0
    /\ document_hashes = {}
    /\ handlers = Idle
    /\ seen_texts = {}
    /\ last = [op |-> "__init__", outcome |-> "returned"]

\* add_document up to the duplicate check: return 0 or go on
CallAddDocument(h, text, document_id) ==
    /\ Free(h)
    /\ CallsOf(Handlers) < MaxCalls
    /\ handlers' = [handlers EXCEPT ![h] =
          IF md5(text) \in document_hashes
          THEN [Begin(h, "add_document", text, document_id)
                  EXCEPT !.pc = "done", !.before = <<>>]
          ELSE [Begin(h, "add_document", text, document_id) EXCEPT !.pc = "add_hash"]]
    /\ seen_texts' = seen_texts \cup {text}
    /\ UNCHANGED <<chunk_size, chunk_overlap, documents, doc_freqs, total_docs,
                   document_hashes, last>>

\* self.document_hashes.add(text_hash), then chunk_text and the test of
\* add_documents for no chunk
AddHashDone(h, chunks) ==
    /\ handlers[h].pc = "add_hash"
    /\ document_hashes' = document_hashes \cup {md5(handlers[h].text)}
    /\ handlers' = [handlers EXCEPT ![h] =
          IF Len(chunks) = 0 THEN Returned(h, 0)
          ELSE [handlers[h] EXCEPT !.pc = "add_freqs", !.chunks = chunks, !.i = 1]]
    /\ UNCHANGED <<chunk_size, chunk_overlap, documents, doc_freqs, total_docs,
                   seen_texts, last>>

AddHash(h) == AddHashDone(h, chunk_text(handlers[h].text, chunk_size, chunk_overlap))

\* for term in unique_terms: self.doc_freqs[term] += 1
AddFreqs(h) ==
    /\ handlers[h].pc = "add_freqs"
    /\ doc_freqs' = UpdateDocFreqs(doc_freqs,
                                   tokenize(handlers[h].chunks[handlers[h].i].text))
    /\ handlers' = [handlers EXCEPT ![h].pc = "add_append"]
    /\ UNCHANGED <<chunk_size, chunk_overlap, documents, total_docs,
                   document_hashes, seen_texts, last>>

\* self.documents.append(chunk)
AddAppend(h) ==
    /\ handlers[h].pc = "add_append"
    /\ documents' = Append(documents,
                           IndexedChunk(handlers[h].chunks[handlers[h].i],
                                        handlers[h].document_id,
                                        tokenize(handlers[h].chunks[handlers[h].i].text)))
    /\ handlers' = [handlers EXCEPT ![h].pc = "add_total"]
    /\ UNCHANGED <<chunk_size, chunk_overlap, doc_freqs, total_docs,
                   document_hashes, seen_texts, last>>

\* self.total_docs += 1, then the next chunk or return len(chunks)
AddTotal(h) ==
    /\ handlers[h].pc = "add_total"
    /\ total_docs' = total_docs + 1
    /\ handlers' = [handlers EXCEPT ![h] =
          IF handlers[h].i < Len(handlers[h].chunks)
          THEN [handlers[h] EXCEPT !.pc = "add_freqs", !.i = handlers[h].i + 1]
          ELSE Returned(h, Len(handlers[h].chunks))]
    /\ UNCHANGED <<chunk_size, chunk_overlap, documents, doc_freqs,
                   document_hashes, seen_texts, last>>

\* clear up to self.documents = []
CallClear(h) ==
    /\ Free(h)
    /\ CallsOf(Handlers) < MaxCalls
    /\ documents' = <<>>
    /\ handlers' = [handlers EXCEPT ![h] =
          [Begin(h, "clear", "", "") EXCEPT !.pc = "clear_freqs"]]
    /\ UNCHANGED <<chunk_size, chunk_overlap, doc_freqs, total_docs,
                   document_hashes, seen_texts, last>>

\* self.doc_freqs = Counter()
ClearFreqs(h) ==
    /\ handlers[h].pc = "clear_freqs"
    /\ doc_freqs' = <<>>
    /\ handlers' = [handlers EXCEPT ![h].pc = "clear_total"]
    /\ UNCHANGED <<chunk_size, chunk_overlap, documents, total_docs,
                   document_hashes, seen_texts, last>>

\* self.total_docs = 0
ClearTotal(h) ==
    /\ handlers[h].pc = "clear_total"
    /\ total_docs' = 0
    /\ handlers' = [handlers EXCEPT ![h].pc = "clear_hashes"]
    /\ UNCHANGED <<chunk_size, chunk_overlap, documents, doc_freqs,
                   document_hashes, seen_texts, last>>

\* self.document_hashes.clear(), and clear returns
ClearHashes(h) ==
    /\ handlers[h].pc = "clear_hashes"
    /\ document_hashes' = {}
    /\ seen_texts' = {}
    /\ handlers' = [handlers EXCEPT ![h] = Returned(h, 0)]
    /\ UNCHANGED <<chunk_size, chunk_overlap, documents, doc_freqs, total_docs, last>>

\* where the handlers other than h are in their calls
Others(h) == {handlers[w] : w \in Handlers \ {h}}

\* get_stats by a handler between its calls
ConcGetStats(h) ==
    /\ Free(h)
    /\ last' = [op |-> "get_stats", outcome |-> "returned", ret |-> get_stats(Svc),
                calls |-> handlers[h].calls, others |-> Others(h)]
    /\ UNCHANGED <<chunk_size, chunk_overlap, documents, doc_freqs, total_docs,
                   document_hashes, handlers, seen_texts>>

ConcSearchDone(h, query, top_k, r) ==
    /\ Free(h)
    /\ documents' = r.documents
    /\ last' = [op |-> "search", outcome |-> r.outcome, query |-> query,
                top_k |-> top_k, ret |-> r.results,
                calls |-> handlers[h].calls, others |-> Others(h)]
    /\ UNCHANGED <<chunk_size, chunk_overlap, doc_freqs, total_docs,
                   document_hashes, handlers, seen_texts>>

\* search by a handler between its calls
ConcSearch(h, query, top_k) ==
    ConcSearchDone(h, query, top_k, search(Store, query, top_k))

NextConc ==
    \E h \in Handlers :
        \/ \E text \in ConcTexts : CallAddDocument(h, text, "a.txt")
        \/ AddHash(h)
        \/ AddFreqs(h)
        \/ AddAppend(h)
        \/ AddTotal(h)
        \/ CallClear(h)
        \/ ClearFreqs(h)
        \/ ClearTotal(h)
        \/ ClearHashes(h)
        \/ ConcGetStats(h)
        \/ \E query \in ConcQueries : ConcSearch(h, query, 5)

SpecConc == InitConc /\ [][NextConc]_vars

\* the steps of clear after which part of it is still to come
ClearMid == {"clear_freqs", "clear_total", "clear_hashes"}

\* the steps of add_document after which part of it is still to come
AddMid == {"add_hash", "add_freqs", "add_append", "add_total"}

\* the last call was made by a handler that never called add_document or
\* clear, while handler record w was inside a call of op: whatever changed
\* since w entered its call, w changed
ObservedInside(w, op, mid) ==
    /\ last.op \in {"get_stats", "search"}
    /\ last.calls = 0
    /\ w \in last.others
    /\ w.op = op
    /\ w.pc \in mid

\* C13: clear is atomic for the other handlers: a get_stats that runs while
\* a handler is inside clear reports the index and the hash set either both
\* as clear found them or both empty
C13_ClearIsAtomic ==
    \A w \in (IF last.op = "get_stats" THEN last.others ELSE {}) :
        ObservedInside(w, "clear", ClearMid)
            => last.ret \in {get_stats(w.before), get_stats(clear(w.before))}

\* C19: the ingestion of a document is one unit for the other handlers: a
\* get_stats or a search that runs while a handler is inside add_document
\* gets what it would get from the index without the document or from the
\* index with all of it
C19_IngestionIsAUnit ==
    \A w \in (IF last.op \in {"get_stats", "search"} THEN last.others ELSE {}) :
        ObservedInside(w, "add_document", AddMid)
            => /\ last.op = "get_stats"
                    => last.ret \in
                          {get_stats(w.before),
                           get_stats(add_document(w.before, w.text, w.document_id))}
               /\ last.op = "search"
                    => last.ret \in
                          {search(w.before, last.query, last.top_k).results,
                           search(add_document(w.before, w.text, w.document_id),
                                  last.query, last.top_k).results}

\* C20: when two handlers have each called add_document once, with the same
\* text, and both calls have returned, exactly one of them returned a chunk
\* count above 0 and the index holds the chunks of the text once
C20_IdenticalTextIngestedOnce ==
    \A a, b \in Handlers :
        (/\ a # b
         /\ handlers[a].pc = "done" /\ handlers[b].pc = "done"
         /\ handlers[a].op = "add_document" /\ handlers[b].op = "add_document"
         /\ handlers[a].calls = 1 /\ handlers[b].calls = 1
         /\ handlers[a].text = handlers[b].text)
            => /\ (handlers[a].ret > 0) # (handlers[b].ret > 0)
               /\ Len(documents)
                     = Len(chunk_text(handlers[a].text, chunk_size, chunk_overlap))
               /\ total_docs = Len(documents)

\* C21: when no sentence of the text is longer than chunk_size and
\* chunk_overlap < chunk_size, every chunk has char_count <= chunk_size,
\* char_count being the length of its sentences joined by single spaces
C21_ChunksWithinChunkSize ==
    (/\ Cardinality(seen_texts) = 1
     /\ chunk_overlap < chunk_size
     /\ \A j \in 1..Len(split_into_sentences(Strip(IngestedText))) :
           Len(split_into_sentences(Strip(IngestedText))[j]) <= chunk_size)
        => \A k \in 1..Len(documents) :
              /\ documents[k].char_count = Len(documents[k].text)
              /\ documents[k].char_count <= chunk_size

\* stored chunk i is a chunk of text, under the configuration in use
ChunkOf(i, text) ==
    \E k \in 1..Len(chunk_text(text, chunk_size, chunk_overlap)) :
        /\ chunk_text(text, chunk_size, chunk_overlap)[k].text = documents[i].text
        /\ chunk_text(text, chunk_size, chunk_overlap)[k].chunk_id
              = documents[i].chunk_id

\* C22: after whatever calls of add_document and clear, one after the
\* other, an index that holds a chunk has a hash in the hash set, and every
\* stored chunk is a chunk of a text passed since the last clear whose hash
\* is in the hash set
C22_ChunksHaveTheirHash ==
    /\ Len(documents) > 0 => Cardinality(document_hashes) > 0
    /\ \A i \in 1..Len(documents) :
          \E text \in seen_texts :
              /\ md5(text) \in document_hashes
              /\ ChunkOf(i, text)

\* C22 witness: an add_document stored a chunk next to the chunk of
\* another document, and the hash set has the hashes of both
C22_Witness ==
    /\ last.op = "add_document"
    /\ last.ret >= 1
    /\ Len(documents) = 2
    /\ documents[1].document_id # documents[2].document_id
    /\ Cardinality(document_hashes) = 2

\* C23: between completed calls doc_freqs[t] <= total_docs for every term,
\* so no idf is negative; no score that search returns is negative, and the
\* score of a chunk that has none of the query's terms, or no token at all,
\* is 0
C23_ScoresAreNotNegative ==
    /\ \A term \in DOMAIN doc_freqs :
          /\ doc_freqs[term] <= total_docs
          /\ compute_idf(term, doc_freqs, total_docs) >= 0
    /\ last.op = "search"
          => \A k \in 1..Len(last.ret) :
                "score" \in DOMAIN last.ret[k].fields
                  => /\ ~RatLess(last.ret[k].fields.score, Zero)
                     /\ (Range(tokenize(documents[last.ret[k].from].text))
                            \cap Range(tokenize(last.query)) = {})
                           => RatEq(last.ret[k].fields.score, Zero)

\* C23 witness: a search returned a chunk with a score above 0 and a chunk
\* without any token, with the score 0
C23_Witness ==
    /\ last.op = "search"
    /\ \E k \in 1..Len(last.ret) :
          /\ "score" \in DOMAIN last.ret[k].fields
          /\ RatLess(Zero, last.ret[k].fields.score)
    /\ \E k \in 1..Len(last.ret) :
          /\ "score" \in DOMAIN last.ret[k].fields
          /\ tokenize(documents[last.ret[k].from].text) = <<>>
          /\ RatEq(last.ret[k].fields.score, Zero)

=============================================================================
